---- MODULE Spec2Model ----
(***************************************************************************)
(* A model of iqyx/kvstore (src/kvstore.c, src/kvstore.h): a key-value     *)
(* store that packs variable-length slots into a byte-addressable backend. *)
(* The backend is modelled byte by byte; the slot codec (write_slot,       *)
(* read_slot) encodes and decodes the real layout: 4 bytes of magic, a     *)
(* 4-byte key length, the key, a 4-byte value length, the value.           *)
(***************************************************************************)
EXTENDS Integers, Sequences, FiniteSets, TLC

(* ------------------------------------------------------------------ *)
(* Configuration constants of kvstore.h                                *)
(* ------------------------------------------------------------------ *)
KVSTORE_MAX_KEY_SIZE == 16
KVSTORE_KEY_SIZE_BYTES == 4
KVSTORE_VALUE_SIZE_BYTES == 4
KVSTORE_HEADER_SIZE_BYTES == 4
KVSTORE_HEADER_MAGIC == <<248, 42, 147, 17>>

KVSTORE_OK == 0
KVSTORE_FAILED == -1
KVSTORE_BAD_ARG == -2
KVSTORE_NOT_FOUND == -3

(* size_t arithmetic is modular.  The model scales the modulus of a    *)
(* 32-bit size_t down to 2^16: every size_t expression wraps modulo    *)
(* SIZE_MOD, and a length field (uint32_t tmp = key_size) holds a      *)
(* value below SIZE_MOD in its 4 bytes.  Wrap-around happens where it  *)
(* does at the wider modulus: in calculate_value_size of a size below  *)
(* the minimal slot size, and in position + slot_size after it.        *)
SIZE_MOD == 65536

(* A null pointer argument: a value no byte buffer equals. *)
NULL == <<-1>>

(* ------------------------------------------------------------------ *)
(* Bounds of the model                                                 *)
(* ------------------------------------------------------------------ *)
(* longest value the caller passes to Put *)
MaxValLen == 2

(* The backends the store is run on: total size in bytes, whether a write *)
(* past the end grows it, and the byte it is filled with before Prepare.  *)
(* 12 bytes is a minimal slot, 14 the smallest occupied slot; 26 = 14 + 12 *)
(* splits into a pair and a minimal free slot; 41 holds two pairs and a    *)
(* free slot; 8 is smaller than any slot.                                  *)
Backends ==
    { [size |-> 8,  growable |-> FALSE, fill |-> 0],
      [size |-> 8,  growable |-> TRUE,  fill |-> 0],
      [size |-> 12, growable |-> FALSE, fill |-> 0],
      [size |-> 25, growable |-> TRUE,  fill |-> 0],
      [size |-> 26, growable |-> FALSE, fill |-> 255],
      [size |-> 41, growable |-> FALSE, fill |-> 0] }

(* ------------------------------------------------------------------ *)
(* Helpers for byte strings                                            *)
(* ------------------------------------------------------------------ *)
Rep(b, n) == [i \in 1..n |-> b]

(* a caller's buffer of cap bytes, holding 0xAA before the call *)
Buffer(cap) == Rep(170, cap)

(* memcpy(dst + off, src, n): dst with src[1..n] laid over it at offset off *)
Overlay(dst, off, src, n) ==
    SubSeq(dst, 1, off) \o SubSeq(src, 1, n) \o SubSeq(dst, off + n + 1, Len(dst))

(* An unsigned integer stored in a w-byte field (uint32_t tmp = key_size:  *)
(* the low w bytes, little-endian), and a field of 1, 2 or 4 bytes (the    *)
(* widths the code supports) read back.                                    *)
ToBytes(n, w) == [i \in 1..w |-> (n \div (256^(i-1))) % 256]

FromBytes(s) ==
    CASE Len(s) = 1 -> s[1]
      [] Len(s) = 2 -> s[1] + 256 * s[2]
      [] Len(s) = 4 -> s[1] + 256 * s[2] + 65536 * s[3] + 16777216 * s[4]

(* ------------------------------------------------------------------ *)
(* The backend: a bounded byte range with read, write and get_size     *)
(* ------------------------------------------------------------------ *)
backend_get_size(b) == Len(b.mem)

(* read(context, buf, pos, size): fails, filling nothing, when the range is not readable *)
backend_read(b, pos, size) ==
    IF pos + size <= Len(b.mem)
    THEN [res |-> KVSTORE_OK, data |-> SubSeq(b.mem, pos + 1, pos + size)]
    ELSE [res |-> KVSTORE_FAILED, data |-> <<>>]

(* write(context, buf, pos, size): in range it overwrites; past the end it *)
(* grows a growable backend (a gap reads as zero) and fails, committing    *)
(* nothing, on a fixed one.                                                *)
backend_write(b, buf, pos, size) ==
    IF pos + size <= Len(b.mem)
    THEN [res |-> KVSTORE_OK, b |-> [b EXCEPT !.mem = Overlay(b.mem, pos, buf, size)]]
    ELSE IF b.growable
    THEN [res |-> KVSTORE_OK,
          b |-> [b EXCEPT !.mem = Overlay(b.mem \o Rep(0, pos + size - Len(b.mem)), pos, buf, size)]]
    ELSE [res |-> KVSTORE_FAILED, b |-> b]

(* ------------------------------------------------------------------ *)
(* Slot sizes                                                          *)
(* ------------------------------------------------------------------ *)
calculate_slot_size(key_size, value_size) ==
    (KVSTORE_HEADER_SIZE_BYTES + KVSTORE_KEY_SIZE_BYTES + key_size
       + KVSTORE_VALUE_SIZE_BYTES + value_size) % SIZE_MOD

calculate_value_size(slot_size, key_size) ==
    (slot_size - KVSTORE_HEADER_SIZE_BYTES - KVSTORE_KEY_SIZE_BYTES - key_size
       - KVSTORE_VALUE_SIZE_BYTES) % SIZE_MOD

(* ------------------------------------------------------------------ *)
(* Bind(v, Body): Body applied to the value of v, with v evaluated     *)
(* once (a local variable of the C code that is assigned once and read *)
(* several times).                                                     *)
(* ------------------------------------------------------------------ *)
Bind(v, Body(_)) == CHOOSE y \in { Body(x) : x \in {v} } : TRUE

(* ------------------------------------------------------------------ *)
(* write_slot: the slot encoder                                        *)
(* Returns the result, the backend after the writes that were made,    *)
(* and io, the number of backend calls.                                *)
(* ------------------------------------------------------------------ *)
(* write_slot that forgets to write the value bytes *)
write_slot_value_skipped(b, position, value, value_size, io) ==
    [res |-> KVSTORE_OK, b |-> b, io |-> io]

write_slot_value(b, position, value, value_size, io) ==
    IF value # NULL
    THEN Bind(backend_write(b, value, position, value_size),
              LAMBDA w : [res |-> w.res, b |-> w.b, io |-> io + 1])
    ELSE [res |-> KVSTORE_OK, b |-> b, io |-> io]

write_slot_value_size(b, position, value, value_size, io) ==
    Bind(backend_write(b, ToBytes(value_size, KVSTORE_VALUE_SIZE_BYTES),
                       position, KVSTORE_VALUE_SIZE_BYTES),
         LAMBDA w :
            IF w.res # KVSTORE_OK
            THEN [res |-> KVSTORE_FAILED, b |-> w.b, io |-> io + 1]
            ELSE write_slot_value(w.b, (position + KVSTORE_VALUE_SIZE_BYTES) % SIZE_MOD,
                                  value, value_size, io + 1))

write_slot_key(b, position, key, key_size, value, value_size, io) ==
    IF key # NULL
    THEN Bind(backend_write(b, key, position, key_size),
              LAMBDA w :
                 IF w.res # KVSTORE_OK
                 THEN [res |-> KVSTORE_FAILED, b |-> w.b, io |-> io + 1]
                 ELSE write_slot_value_size(w.b, (position + key_size) % SIZE_MOD,
                                            value, value_size, io + 1))
    ELSE write_slot_value_size(b, (position + key_size) % SIZE_MOD, value, value_size, io)

write_slot_key_size(b, position, key, key_size, value, value_size, io) ==
    Bind(backend_write(b, ToBytes(key_size, KVSTORE_KEY_SIZE_BYTES),
                       position, KVSTORE_KEY_SIZE_BYTES),
         LAMBDA w :
            IF w.res # KVSTORE_OK
            THEN [res |-> KVSTORE_FAILED, b |-> w.b, io |-> io + 1]
            ELSE write_slot_key(w.b, (position + KVSTORE_KEY_SIZE_BYTES) % SIZE_MOD,
                                key, key_size, value, value_size, io + 1))

write_slot(b, position, key, key_size, value, value_size) ==
    IF value_size = 0
    THEN [res |-> KVSTORE_BAD_ARG, b |-> b, io |-> 0]
    ELSE IF (position + calculate_slot_size(key_size, value_size)) % SIZE_MOD
               > backend_get_size(b)
    THEN [res |-> KVSTORE_FAILED, b |-> b, io |-> 1]
    ELSE Bind(backend_write(b, KVSTORE_HEADER_MAGIC, position, KVSTORE_HEADER_SIZE_BYTES),
              LAMBDA w :
                 IF w.res # KVSTORE_OK
                 THEN [res |-> KVSTORE_FAILED, b |-> w.b, io |-> 2]
                 ELSE write_slot_key_size(w.b,
                                          (position + KVSTORE_HEADER_SIZE_BYTES) % SIZE_MOD,
                                          key, key_size, value, value_size, 2))

(* ------------------------------------------------------------------ *)
(* read_slot: the slot decoder                                         *)
(* key and value are the caller's buffers (or NULL), key_size and      *)
(* value_size the capacities on entry.  Returns the result, the        *)
(* buffers and the two lengths as the call leaves them, and io, the    *)
(* number of backend calls.                                            *)
(* ------------------------------------------------------------------ *)
Decoded(res, key, key_size, value, value_size, io) ==
    [res |-> res, key |-> key, key_size |-> key_size,
     value |-> value, value_size |-> value_size, io |-> io]

(* the value bytes: tmp2 is the value length read from the backend *)
read_slot_value(b, position, size, key, key_size, value, value_size, tmp2, io) ==
    IF tmp2 > value_size /\ value # NULL
    THEN Decoded(KVSTORE_FAILED, key, key_size, value, value_size, io)
    ELSE IF (position + tmp2) % SIZE_MOD > size
    THEN Decoded(KVSTORE_FAILED, key, key_size, value, tmp2, io)
    ELSE IF value # NULL
    THEN Bind(backend_read(b, position, tmp2),
              LAMBDA v :
                 IF v.res # KVSTORE_OK
                 THEN Decoded(KVSTORE_FAILED, key, key_size, value, tmp2, io + 1)
                 ELSE Decoded(KVSTORE_OK, key, key_size, Overlay(value, 0, v.data, tmp2),
                              tmp2, io + 1))
    ELSE Decoded(KVSTORE_OK, key, key_size, value, tmp2, io)

(* the value length field *)
read_slot_value_size(b, position, size, key, key_size, value, value_size, io) ==
    IF (position + KVSTORE_VALUE_SIZE_BYTES) % SIZE_MOD > size
    THEN Decoded(KVSTORE_FAILED, key, key_size, value, value_size, io)
    ELSE Bind(backend_read(b, position, KVSTORE_VALUE_SIZE_BYTES),
              LAMBDA r :
                 IF r.res # KVSTORE_OK
                 THEN Decoded(KVSTORE_FAILED, key, key_size, value, value_size, io + 1)
                 ELSE read_slot_value(b, (position + KVSTORE_VALUE_SIZE_BYTES) % SIZE_MOD,
                                      size, key, key_size, value, value_size,
                                      FromBytes(r.data), io + 1))

(* the key bytes: tmp is the key length read from the backend *)
read_slot_key(b, position, size, key, key_size, value, value_size, tmp, io) ==
    IF tmp > key_size /\ key # NULL
    THEN Decoded(KVSTORE_FAILED, key, key_size, value, value_size, io)
    ELSE IF (position + tmp) % SIZE_MOD > size
    THEN Decoded(KVSTORE_FAILED, key, tmp, value, value_size, io)
    ELSE IF key # NULL
    THEN Bind(backend_read(b, position, tmp),
              LAMBDA k :
                 IF k.res # KVSTORE_OK
                 THEN Decoded(KVSTORE_FAILED, key, tmp, value, value_size, io + 1)
                 ELSE read_slot_value_size(b, (position + tmp) % SIZE_MOD, size,
                                           Overlay(key, 0, k.data, tmp), tmp,
                                           value, value_size, io + 1))
    ELSE read_slot_value_size(b, (position + tmp) % SIZE_MOD, size, key, tmp,
                              value, value_size, io)

(* the key length field *)
read_slot_key_size(b, position, size, key, key_size, value, value_size, io) ==
    IF (position + KVSTORE_KEY_SIZE_BYTES) % SIZE_MOD > size
    THEN Decoded(KVSTORE_FAILED, key, key_size, value, value_size, io)
    ELSE Bind(backend_read(b, position, KVSTORE_KEY_SIZE_BYTES),
              LAMBDA r :
                 IF r.res # KVSTORE_OK
                 THEN Decoded(KVSTORE_FAILED, key, key_size, value, value_size, io + 1)
                 ELSE read_slot_key(b, (position + KVSTORE_KEY_SIZE_BYTES) % SIZE_MOD, size,
                                    key, key_size, value, value_size,
                                    FromBytes(r.data), io + 1))

read_slot(b, position, key, key_size, value, value_size) ==
    IF (position + KVSTORE_HEADER_SIZE_BYTES) % SIZE_MOD > backend_get_size(b)
    THEN Decoded(KVSTORE_FAILED, key, key_size, value, value_size, 1)
    ELSE Bind(backend_read(b, position, KVSTORE_HEADER_SIZE_BYTES),
              LAMBDA h :
                 IF h.res # KVSTORE_OK \/ h.data # KVSTORE_HEADER_MAGIC
                 THEN Decoded(KVSTORE_FAILED, key, key_size, value, value_size, 2)
                 ELSE read_slot_key_size(b, (position + KVSTORE_HEADER_SIZE_BYTES) % SIZE_MOD,
                                         backend_get_size(b),
                                         key, key_size, value, value_size, 2))

(* ------------------------------------------------------------------ *)
(* kvstore_prepare                                                     *)
(* enc lists the results of the slot encodes the call made.            *)
(* ------------------------------------------------------------------ *)
kvstore_prepare(b) ==
    Bind(write_slot(b, 0, NULL, 0, NULL, calculate_value_size(backend_get_size(b), 0)),
         LAMBDA w : [res |-> KVSTORE_OK, b |-> w.b, io |-> 1 + w.io, enc |-> <<w.res>>])

(* ------------------------------------------------------------------ *)
(* kvstore_put                                                         *)
(* ------------------------------------------------------------------ *)
(* The scan of the loop: where it ends and how.  "end": position >= size; *)
(* "failed": a decode failed; "split": a free slot big enough to split.    *)
RECURSIVE put_scan(_, _, _, _, _, _)
put_scan(b, position, size, key_size, value_size, io) ==
    IF position >= size
    THEN [how |-> "end", position |-> position, found_value_size |-> 0, io |-> io]
    ELSE Bind(read_slot(b, position, NULL, 0, NULL, 0),
              LAMBDA r :
                 IF r.res # KVSTORE_OK
                 THEN [how |-> "failed", position |-> position, found_value_size |-> 0,
                       io |-> io + r.io]
                 ELSE IF r.key_size > 0
                 THEN put_scan(b, (position + calculate_slot_size(r.key_size, r.value_size))
                                      % SIZE_MOD,
                               size, key_size, value_size, io + r.io)
                 ELSE IF calculate_slot_size(r.key_size, r.value_size)
                            < (calculate_slot_size(key_size, value_size)
                                 + calculate_slot_size(0, 0)) % SIZE_MOD
                 THEN put_scan(b, (position + calculate_slot_size(r.key_size, r.value_size))
                                      % SIZE_MOD,
                               size, key_size, value_size, io + r.io)
                 ELSE [how |-> "split", position |-> position,
                       found_value_size |-> r.value_size, io |-> io + r.io])

(* the value length of the free slot that follows a pair split off a free slot *)
slot2_value_size(found_value_size, key_size, value_size) ==
    calculate_value_size((calculate_slot_size(0, found_value_size)
                            - calculate_slot_size(key_size, value_size)) % SIZE_MOD, 0)

(* a split that writes the pair at offset 0 instead of the scan position *)
kvstore_put_split_at_zero(b, s, key, key_size, value, value_size) ==
    Bind(write_slot(b, 0, key, key_size, value, value_size),
         LAMBDA w1 :
            Bind(write_slot(w1.b,
                            (s.position + calculate_slot_size(key_size, value_size)) % SIZE_MOD,
                            NULL, 0, NULL,
                            slot2_value_size(s.found_value_size, key_size, value_size)),
                 LAMBDA w2 :
                    [res |-> KVSTORE_OK, b |-> w2.b, io |-> s.io + w1.io + w2.io,
                     enc |-> <<w1.res, w2.res>>, at |-> s.position, how |-> "split"]))

(* a split that puts the free remainder first and the pair behind it *)
kvstore_put_split_pair_last(b, s, key, key_size, value, value_size) ==
    Bind(write_slot(b, s.position, NULL, 0, NULL,
                    slot2_value_size(s.found_value_size, key_size, value_size)),
         LAMBDA w1 :
            Bind(write_slot(w1.b,
                            (s.position + calculate_slot_size(0, s.found_value_size)
                               - calculate_slot_size(key_size, value_size)) % SIZE_MOD,
                            key, key_size, value, value_size),
                 LAMBDA w2 :
                    [res |-> KVSTORE_OK, b |-> w2.b, io |-> s.io + w1.io + w2.io,
                     enc |-> <<w2.res, w1.res>>,
                     at |-> (s.position + calculate_slot_size(0, s.found_value_size)
                               - calculate_slot_size(key_size, value_size)) % SIZE_MOD,
                     how |-> "split"]))

(* s is the scan's outcome, a free slot to split; both encode results are dropped *)
kvstore_put_split(b, s, key, key_size, value, value_size) ==
    Bind(write_slot(b, s.position, key, key_size, value, value_size),
         LAMBDA w1 :
            Bind(write_slot(w1.b,
                            (s.position + calculate_slot_size(key_size, value_size)) % SIZE_MOD,
                            NULL, 0, NULL,
                            slot2_value_size(s.found_value_size, key_size, value_size)),
                 LAMBDA w2 :
                    [res |-> KVSTORE_OK, b |-> w2.b, io |-> s.io + w1.io + w2.io,
                     enc |-> <<w1.res, w2.res>>, at |-> s.position, how |-> "split"]))

(* s is the scan's outcome, the end of the backend *)
kvstore_put_append(b, s, key, key_size, value, value_size) ==
    Bind(write_slot(b, s.position, key, key_size, value, value_size),
         LAMBDA w :
            [res |-> IF w.res # KVSTORE_OK THEN KVSTORE_NOT_FOUND ELSE KVSTORE_OK,
             b |-> w.b, io |-> s.io + w.io,
             enc |-> <<w.res>>, at |-> s.position, how |-> "end"])

(* an argument check that lets an oversized key through *)
kvstore_put_args_bad_no_max(key, key_size, value, value_size) ==
    \/ key = NULL
    \/ key_size = 0
    \/ value = NULL
    \/ value_size = 0

kvstore_put_args_bad(key, key_size, value, value_size) ==
    \/ key = NULL
    \/ key_size = 0
    \/ value = NULL
    \/ value_size = 0
    \/ key_size > KVSTORE_MAX_KEY_SIZE

kvstore_put(b, key, key_size, value, value_size) ==
    IF kvstore_put_args_bad(key, key_size, value, value_size)
    THEN [res |-> KVSTORE_BAD_ARG, b |-> b, io |-> 0, enc |-> <<>>, at |-> 0,
          how |-> "bad_arg"]
    ELSE Bind(put_scan(b, 0, backend_get_size(b), key_size, value_size, 1),
              LAMBDA s :
                 CASE s.how = "failed" ->
                        [res |-> KVSTORE_FAILED, b |-> b, io |-> s.io, enc |-> <<>>,
                         at |-> s.position, how |-> "failed"]
                   [] s.how = "split" ->
                        kvstore_put_split(b, s, key, key_size, value, value_size)
                   [] OTHER ->
                        kvstore_put_append(b, s, key, key_size, value, value_size))

(* ------------------------------------------------------------------ *)
(* kvstore_advance                                                     *)
(* ------------------------------------------------------------------ *)
(* an advance that, like the advance_slot stub, moves nothing *)
kvstore_advance_stub(b, cursor) ==
    Bind(read_slot(b, cursor.position, NULL, 0, NULL, 0),
         LAMBDA r :
            IF r.res # KVSTORE_OK
            THEN [res |-> KVSTORE_FAILED, cursor |-> cursor, io |-> r.io]
            ELSE [res |-> KVSTORE_OK, cursor |-> cursor, io |-> r.io])

(* an advance that moves the cursor even though the decode failed *)
kvstore_advance_on_failure(b, cursor) ==
    Bind(read_slot(b, cursor.position, NULL, 0, NULL, 0),
         LAMBDA r :
            IF r.res # KVSTORE_OK
            THEN [res |-> KVSTORE_FAILED,
                  cursor |-> [cursor EXCEPT !.position =
                                (@ + calculate_slot_size(0, 0)) % SIZE_MOD],
                  io |-> r.io]
            ELSE [res |-> KVSTORE_OK,
                  cursor |-> [cursor EXCEPT !.position =
                                (@ + calculate_slot_size(r.key_size, r.value_size)) % SIZE_MOD],
                  io |-> r.io])

kvstore_advance(b, cursor) ==
    Bind(read_slot(b, cursor.position, NULL, 0, NULL, 0),
         LAMBDA r :
            IF r.res # KVSTORE_OK
            THEN [res |-> KVSTORE_FAILED, cursor |-> cursor, io |-> r.io]
            ELSE [res |-> KVSTORE_OK,
                  cursor |-> [cursor EXCEPT !.position =
                                (@ + calculate_slot_size(r.key_size, r.value_size)) % SIZE_MOD],
                  io |-> r.io])

(* ------------------------------------------------------------------ *)
(* kvstore_search_next                                                 *)
(* The while (1) loop, one call of search_loop per iteration.  trace   *)
(* lists the cursor position of every slot decode.  The code's loop    *)
(* has no bound.  A scan that moves forward decodes at most one slot   *)
(* per minimal slot size of the backend, and one more that fails; the  *)
(* model stops a scan that has made more iterations than that and      *)
(* reports it with ended = FALSE.                                      *)
(* ------------------------------------------------------------------ *)
ScanLimit(b) == Len(b.mem) \div calculate_slot_size(0, 0) + 2

(* a comparison that takes any two keys of equal length for equal *)
memcmp_differs_never(a, b, n) == FALSE

(* memcmp(a, b, n) != 0 *)
memcmp_differs(a, b, n) == SubSeq(a, 1, n) # SubSeq(b, 1, n)

(* the two places of the loop that call kvstore_advance, drop its result and continue *)
RECURSIVE search_loop(_, _, _, _, _)
search_advance(b, cursor, fuel, io, trace) ==
    Bind(kvstore_advance(b, cursor),
         LAMBDA a :
            Bind([cursor |-> a.cursor, fuel |-> fuel - 1, io |-> io + a.io, trace |-> trace],
                 LAMBDA n : search_loop(b, n.cursor, n.fuel, n.io, n.trace)))

search_loop(b, cursor, fuel, io, trace) ==
    IF fuel = 0
    THEN [res |-> KVSTORE_FAILED, cursor |-> cursor, io |-> io, trace |-> trace,
          ended |-> FALSE]
    ELSE Bind(read_slot(b, cursor.position, Buffer(KVSTORE_MAX_KEY_SIZE),
                        KVSTORE_MAX_KEY_SIZE, NULL, 0),
              LAMBDA r :
                 IF r.res # KVSTORE_OK
                 THEN [res |-> KVSTORE_FAILED, cursor |-> cursor, io |-> io + r.io,
                       trace |-> Append(trace, cursor.position), ended |-> TRUE]
                 ELSE IF r.key_size # cursor.key_size
                 THEN search_advance(b, cursor, fuel, io + r.io,
                                     Append(trace, cursor.position))
                 ELSE IF memcmp_differs(r.key, cursor.key, r.key_size)
                 THEN search_advance(b, cursor, fuel, io + r.io,
                                     Append(trace, cursor.position))
                 ELSE [res |-> KVSTORE_OK, cursor |-> cursor, io |-> io + r.io,
                       trace |-> Append(trace, cursor.position), ended |-> TRUE])

kvstore_search_next(b, cursor) == search_loop(b, cursor, ScanLimit(b), 0, <<>>)

(* ------------------------------------------------------------------ *)
(* kvstore_search                                                      *)
(* ------------------------------------------------------------------ *)
(* a search that does not rewind the cursor to offset 0 *)
kvstore_search_no_rewind(b, cursor, key, key_size) ==
    IF key = NULL \/ key_size = 0 \/ key_size > KVSTORE_MAX_KEY_SIZE
    THEN [res |-> KVSTORE_BAD_ARG, cursor |-> cursor, io |-> 0, trace |-> <<>>,
          ended |-> TRUE]
    ELSE kvstore_search_next(b, [position |-> cursor.position, key_size |-> key_size,
                                 key |-> SubSeq(key, 1, key_size)])

kvstore_search(b, cursor, key, key_size) ==
    IF key = NULL \/ key_size = 0 \/ key_size > KVSTORE_MAX_KEY_SIZE
    THEN [res |-> KVSTORE_BAD_ARG, cursor |-> cursor, io |-> 0, trace |-> <<>>,
          ended |-> TRUE]
    ELSE kvstore_search_next(b, [position |-> 0, key_size |-> key_size,
                                 key |-> SubSeq(key, 1, key_size)])

(* ------------------------------------------------------------------ *)
(* kvstore_get, kvstore_get_kv                                         *)
(* ------------------------------------------------------------------ *)
kvstore_get(b, cursor, value, value_size) ==
    IF value = NULL \/ value_size = 0
    THEN Decoded(KVSTORE_BAD_ARG, NULL, 0, value, value_size, 0)
    ELSE read_slot(b, cursor.position, NULL, 0, value, value_size)

kvstore_get_kv(b, cursor, key, key_size, value, value_size) ==
    read_slot(b, cursor.position, key, key_size, value, value_size)

(* ------------------------------------------------------------------ *)
(* The caller's inputs                                                 *)
(* ------------------------------------------------------------------ *)
Keys == { <<1>>, <<2>>, <<1, 2>> }
Values == { Rep(6 + n, n) : n \in 1..MaxValLen } \cup { <<9>> }

PutArg(key, key_size, value, value_size) ==
    [key |-> key, key_size |-> key_size, value |-> value, value_size |-> value_size]

(* one call for each way an argument of kvstore_put can be invalid *)
BadPutArgs ==
    { PutArg(NULL, 1, <<7>>, 1),
      PutArg(<<>>, 0, <<7>>, 1),
      PutArg(<<1>>, 1, NULL, 1),
      PutArg(<<1>>, 1, <<>>, 0),
      PutArg(Rep(1, KVSTORE_MAX_KEY_SIZE + 1), KVSTORE_MAX_KEY_SIZE + 1, <<7>>, 1) }

(* the valid calls: every key with one value, and one key with every value *)
GoodPutArgs ==
    { PutArg(k, Len(k), <<7>>, 1) : k \in Keys }
        \cup { PutArg(<<1>>, 1, v, Len(v)) : v \in Values }

PutArgs == GoodPutArgs \cup BadPutArgs

(* capacities of the value and key buffers handed to Get and GetWithKey *)
ValueCaps == {0, 1, MaxValLen}
KeyCaps == {1, KVSTORE_MAX_KEY_SIZE}

(* ------------------------------------------------------------------ *)
(* State                                                               *)
(* ------------------------------------------------------------------ *)
VARIABLES
    backend,    \* the backend: [mem: its bytes, growable]
    cursor,     \* the caller's KvStoreCursor: [position, key, key_size]; key holds
                \* the key_size bytes memcpy'd in (the rest of the array is never read)
    bound,      \* the cursor has been initialised by kvstore_search
    prepared,   \* kvstore_prepare has been called
    last,       \* the last API call: its name, arguments, result and outputs
    stored,     \* the pairs written by successful Puts, in insertion order
    rt,         \* progress of a Put / Search / Get sequence on one key
    refused,    \* the smallest slot size a Put was refused with NOT_FOUND (0: none yet)
    puts        \* the kvstore_put calls in progress in two threads of control, each
                \* with its position in the code and its local variables

vars == <<backend, cursor, bound, prepared, last, stored, rt, refused, puts>>

NoCall ==
    [op |-> "none", res |-> KVSTORE_OK, io |-> 0, bad |-> FALSE,
     key_size |-> 0, value_size |-> 0, key |-> <<>>, value |-> <<>>, cap |-> 0,
     how |-> "", at |-> 0, enc |-> <<>>, trace |-> <<>>, ended |-> TRUE]

Idle == [stage |-> "idle", key |-> <<>>, value |-> <<>>, dup |-> FALSE]

StoredKeys == { stored[i].key : i \in 1..Len(stored) }

Init ==
    /\ backend \in { [mem |-> Rep(B.fill, B.size), growable |-> B.growable] : B \in Backends }
    /\ cursor = [position |-> 0, key |-> <<>>, key_size |-> 0]
    /\ bound = FALSE
    /\ prepared = FALSE
    /\ last = NoCall
    /\ stored = <<>>
    /\ rt = Idle
    /\ refused = 0
    /\ puts = <<>>

(* ------------------------------------------------------------------ *)
(* Actions: one per API call.  The store is formatted once, on first   *)
(* use, and every other call follows Prepare.                          *)
(* ------------------------------------------------------------------ *)
Prepare ==
    /\ ~prepared
    /\ \E r \in {kvstore_prepare(backend)} :
          /\ backend' = r.b
          /\ last' = [NoCall EXCEPT !.op = "prepare", !.res = r.res, !.io = r.io,
                                    !.enc = r.enc]
    /\ prepared' = TRUE
    /\ stored' = <<>>
    /\ rt' = Idle
    /\ refused' = 0
    /\ UNCHANGED <<cursor, bound, puts>>

Put ==
    /\ prepared
    /\ \E a \in PutArgs :
         \E r \in {kvstore_put(backend, a.key, a.key_size, a.value, a.value_size)} :
            /\ backend' = r.b
            /\ last' = [NoCall EXCEPT !.op = "put", !.res = r.res, !.io = r.io,
                                      !.bad = a \in BadPutArgs,
                                      !.key_size = a.key_size,
                                      !.value_size = a.value_size,
                                      !.how = r.how, !.at = r.at, !.enc = r.enc]
            /\ stored' = IF r.res = KVSTORE_OK /\ r.enc[1] = KVSTORE_OK
                         THEN Append(stored, [at |-> r.at, key |-> a.key, value |-> a.value])
                         ELSE stored
            /\ rt' = IF r.res = KVSTORE_OK
                     THEN [stage |-> "put", key |-> a.key, value |-> a.value,
                           dup |-> a.key \in StoredKeys]
                     ELSE Idle
            /\ refused' = IF r.res = KVSTORE_NOT_FOUND
                               /\ (refused = 0
                                     \/ calculate_slot_size(a.key_size, a.value_size) < refused)
                          THEN calculate_slot_size(a.key_size, a.value_size)
                          ELSE refused
    /\ UNCHANGED <<cursor, bound, prepared, puts>>

Search ==
    /\ prepared
    /\ \E key \in Keys \cup {NULL} :
         \E r \in {kvstore_search(backend, cursor, key, IF key = NULL THEN 1 ELSE Len(key))} :
            /\ cursor' = r.cursor
            /\ bound' = (bound \/ r.res # KVSTORE_BAD_ARG)
            /\ last' = [NoCall EXCEPT !.op = "search", !.res = r.res, !.io = r.io,
                                      !.bad = (key = NULL),
                                      !.trace = r.trace, !.ended = r.ended]
            /\ rt' = IF rt.stage = "put" /\ key = rt.key
                     THEN [rt EXCEPT !.stage = "search"]
                     ELSE Idle
    /\ UNCHANGED <<backend, prepared, stored, refused, puts>>

SearchNext ==
    /\ prepared /\ bound
    /\ \E r \in {kvstore_search_next(backend, cursor)} :
          /\ cursor' = r.cursor
          /\ last' = [NoCall EXCEPT !.op = "search_next", !.res = r.res, !.io = r.io,
                                    !.trace = r.trace, !.ended = r.ended]
    /\ rt' = Idle
    /\ UNCHANGED <<backend, bound, prepared, stored, refused, puts>>

Advance ==
    /\ prepared /\ bound
    /\ \E r \in {kvstore_advance(backend, cursor)} :
          /\ cursor' = r.cursor
          /\ last' = [NoCall EXCEPT !.op = "advance", !.res = r.res, !.io = r.io]
    /\ rt' = Idle
    /\ UNCHANGED <<backend, bound, prepared, stored, refused, puts>>

Get ==
    /\ prepared /\ bound
    /\ \E cap \in ValueCaps, isnull \in BOOLEAN :
         /\ isnull => cap = 1
         /\ \E r \in {kvstore_get(backend, cursor, IF isnull THEN NULL ELSE Buffer(cap), cap)} :
               /\ last' = [NoCall EXCEPT !.op = "get", !.res = r.res, !.io = r.io,
                                         !.bad = (isnull \/ cap = 0),
                                         !.cap = cap,
                                         !.value = r.value, !.value_size = r.value_size]
               /\ rt' = IF rt.stage = "search" /\ last.res = KVSTORE_OK
                        THEN [rt EXCEPT !.stage = "get"]
                        ELSE Idle
    /\ UNCHANGED <<backend, cursor, bound, prepared, stored, refused, puts>>

GetWithKey ==
    /\ prepared /\ bound
    /\ \E kcap \in KeyCaps, vcap \in ValueCaps \ {0} :
         \E r \in {kvstore_get_kv(backend, cursor, Buffer(kcap), kcap, Buffer(vcap), vcap)} :
            last' = [NoCall EXCEPT !.op = "get_kv", !.res = r.res, !.io = r.io,
                                   !.cap = vcap,
                                   !.key = r.key, !.key_size = r.key_size,
                                   !.value = r.value, !.value_size = r.value_size]
    /\ rt' = Idle
    /\ UNCHANGED <<backend, cursor, bound, prepared, stored, refused, puts>>

Next ==
    \/ Prepare
    \/ Put
    \/ Search
    \/ SearchNext
    \/ Advance
    \/ Get
    \/ GetWithKey

Spec == Init /\ [][Next]_vars

(* ------------------------------------------------------------------ *)
(* Two kvstore_put calls on one backend, without a lock               *)
(* Each call runs the code of kvstore_put, read_slot and write_slot   *)
(* one backend call at a time; the steps of the two calls interleave  *)
(* freely.  The store holds one free slot (Prepare has returned).     *)
(* ------------------------------------------------------------------ *)
ConcBackendSize == 41

(* the arguments of the two calls: different keys, values of equal or different length *)
ConcArgs ==
    { <<PutArg(<<1>>, 1, <<7>>, 1), PutArg(<<2>>, 1, v, Len(v))>> : v \in { <<9>>, <<8, 8>> } }

(* the local variables of a kvstore_put call and of the read_slot / write_slot it is in *)
PutCall(a) ==
    [pc |-> "start", res |-> KVSTORE_OK, at |-> 0,
     key |-> a.key, key_size |-> a.key_size, value |-> a.value, value_size |-> a.value_size,
     size |-> 0, position |-> 0, found_key_size |-> 0, found_value_size |-> 0,
     rsize |-> 0, rpos |-> 0,
     phase |-> "", wpos |-> 0, wkey |-> NULL, wkey_size |-> 0, wvalue |-> NULL,
     wvalue_size |-> 0, pending |-> <<>>]

InitConc ==
    /\ \E a \in ConcArgs : puts = <<PutCall(a[1]), PutCall(a[2])>>
    /\ backend = kvstore_prepare([mem |-> Rep(0, ConcBackendSize), growable |-> FALSE]).b
    /\ prepared = TRUE
    /\ cursor = [position |-> 0, key |-> <<>>, key_size |-> 0]
    /\ bound = FALSE
    /\ last = NoCall
    /\ stored = <<>>
    /\ rt = Idle
    /\ refused = 0

(* return res from kvstore_put *)
PutReturn(c, res) == [c EXCEPT !.pc = "done", !.res = res]

(* enter write_slot(self, position, key, key_size, value, value_size) *)
WriteSlotEnter(c, phase, position, key, key_size, value, value_size) ==
    [c EXCEPT !.pc = "w_size", !.phase = phase, !.wpos = position,
              !.wkey = key, !.wkey_size = key_size,
              !.wvalue = value, !.wvalue_size = value_size]

(* top of the while (1) loop of kvstore_put, with the position to look at *)
PutLoop(c, position) ==
    IF position >= c.size
    THEN WriteSlotEnter([c EXCEPT !.position = position, !.at = position],
                        "append", position, c.key, c.key_size, c.value, c.value_size)
    ELSE [c EXCEPT !.pc = "r_size", !.position = position]

(* read_slot has returned KVSTORE_OK: the rest of the loop body *)
PutFound(c) ==
    IF c.found_key_size > 0
    THEN PutLoop(c, (c.position + calculate_slot_size(c.found_key_size, c.found_value_size))
                       % SIZE_MOD)
    ELSE IF calculate_slot_size(c.found_key_size, c.found_value_size)
               < (calculate_slot_size(c.key_size, c.value_size)
                    + calculate_slot_size(0, 0)) % SIZE_MOD
    THEN PutLoop(c, (c.position + calculate_slot_size(c.found_key_size, c.found_value_size))
                       % SIZE_MOD)
    ELSE WriteSlotEnter([c EXCEPT !.at = c.position], "split1", c.position,
                        c.key, c.key_size, c.value, c.value_size)

(* write_slot has returned res: what kvstore_put does with it *)
WriteSlotReturn(c, res) ==
    CASE c.phase = "split1" ->
           WriteSlotEnter(c, "split2",
                          (c.position + calculate_slot_size(c.key_size, c.value_size)) % SIZE_MOD,
                          NULL, 0, NULL,
                          slot2_value_size(c.found_value_size, c.key_size, c.value_size))
      [] c.phase = "split2" -> PutReturn(c, KVSTORE_OK)
      [] OTHER -> PutReturn(c, IF res # KVSTORE_OK THEN KVSTORE_NOT_FOUND ELSE KVSTORE_OK)

(* the backend writes write_slot makes, in order, once its checks have passed *)
WriteSlotWrites(position, key, key_size, value, value_size) ==
    << [buf |-> KVSTORE_HEADER_MAGIC, pos |-> position, size |-> KVSTORE_HEADER_SIZE_BYTES],
       [buf |-> ToBytes(key_size, KVSTORE_KEY_SIZE_BYTES),
        pos |-> (position + KVSTORE_HEADER_SIZE_BYTES) % SIZE_MOD,
        size |-> KVSTORE_KEY_SIZE_BYTES] >>
    \o (IF key # NULL
        THEN << [buf |-> key,
                 pos |-> (position + KVSTORE_HEADER_SIZE_BYTES + KVSTORE_KEY_SIZE_BYTES)
                            % SIZE_MOD,
                 size |-> key_size] >>
        ELSE << >>)
    \o << [buf |-> ToBytes(value_size, KVSTORE_VALUE_SIZE_BYTES),
           pos |-> (position + KVSTORE_HEADER_SIZE_BYTES + KVSTORE_KEY_SIZE_BYTES + key_size)
                      % SIZE_MOD,
           size |-> KVSTORE_VALUE_SIZE_BYTES] >>
    \o (IF value # NULL
        THEN << [buf |-> value,
                 pos |-> (position + KVSTORE_HEADER_SIZE_BYTES + KVSTORE_KEY_SIZE_BYTES
                            + key_size + KVSTORE_VALUE_SIZE_BYTES) % SIZE_MOD,
                 size |-> value_size] >>
        ELSE << >>)

(* the steps leave the single-threaded observation variables alone *)
ConcFrame == UNCHANGED <<cursor, bound, prepared, last, stored, rt, refused>>

(* kvstore_put: argument check, size = get_size(), first test of the loop *)
ConcPutStart ==
    \E i \in DOMAIN puts : \E c \in {puts[i]} :
        /\ c.pc = "start"
        /\ puts' = [puts EXCEPT ![i] =
              IF kvstore_put_args_bad(c.key, c.key_size, c.value, c.value_size)
              THEN PutReturn(c, KVSTORE_BAD_ARG)
              ELSE PutLoop([c EXCEPT !.size = backend_get_size(backend)], 0)]
        /\ UNCHANGED backend
        /\ ConcFrame

(* read_slot: size = get_size(), bounds check of the header *)
ConcReadSize ==
    \E i \in DOMAIN puts : \E c \in {puts[i]} :
        /\ c.pc = "r_size"
        /\ puts' = [puts EXCEPT ![i] =
              IF (c.position + KVSTORE_HEADER_SIZE_BYTES) % SIZE_MOD > backend_get_size(backend)
              THEN PutReturn(c, KVSTORE_FAILED)
              ELSE [c EXCEPT !.pc = "r_header", !.rsize = backend_get_size(backend),
                             !.rpos = c.position]]
        /\ UNCHANGED backend
        /\ ConcFrame

(* read_slot: read and compare the header, bounds check of the key length field *)
ConcReadHeader ==
    \E i \in DOMAIN puts : \E c \in {puts[i]} :
        /\ c.pc = "r_header"
        /\ \E h \in {backend_read(backend, c.rpos, KVSTORE_HEADER_SIZE_BYTES)} :
             puts' = [puts EXCEPT ![i] =
                IF h.res # KVSTORE_OK \/ h.data # KVSTORE_HEADER_MAGIC
                THEN PutReturn(c, KVSTORE_FAILED)
                ELSE IF (c.rpos + KVSTORE_HEADER_SIZE_BYTES + KVSTORE_KEY_SIZE_BYTES) % SIZE_MOD
                           > c.rsize
                THEN PutReturn(c, KVSTORE_FAILED)
                ELSE [c EXCEPT !.pc = "r_key_size",
                               !.rpos = (c.rpos + KVSTORE_HEADER_SIZE_BYTES) % SIZE_MOD]]
        /\ UNCHANGED backend
        /\ ConcFrame

(* read_slot: read the key length (key is NULL: no key bytes are read), *)
(* bounds checks of the key and of the value length field               *)
ConcReadKeySize ==
    \E i \in DOMAIN puts : \E c \in {puts[i]} :
        /\ c.pc = "r_key_size"
        /\ \E r \in {backend_read(backend, c.rpos, KVSTORE_KEY_SIZE_BYTES)} :
             puts' = [puts EXCEPT ![i] =
                IF r.res # KVSTORE_OK
                THEN PutReturn(c, KVSTORE_FAILED)
                ELSE IF (c.rpos + KVSTORE_KEY_SIZE_BYTES + FromBytes(r.data)) % SIZE_MOD
                           > c.rsize
                THEN PutReturn([c EXCEPT !.found_key_size = FromBytes(r.data)], KVSTORE_FAILED)
                ELSE IF (c.rpos + KVSTORE_KEY_SIZE_BYTES + FromBytes(r.data)
                           + KVSTORE_VALUE_SIZE_BYTES) % SIZE_MOD > c.rsize
                THEN PutReturn([c EXCEPT !.found_key_size = FromBytes(r.data)], KVSTORE_FAILED)
                ELSE [c EXCEPT !.pc = "r_value_size",
                               !.found_key_size = FromBytes(r.data),
                               !.rpos = (c.rpos + KVSTORE_KEY_SIZE_BYTES + FromBytes(r.data))
                                           % SIZE_MOD]]
        /\ UNCHANGED backend
        /\ ConcFrame

(* read_slot: read the value length (value is NULL), bounds check of the *)
(* value, return; kvstore_put: the rest of the loop body                 *)
ConcReadValueSize ==
    \E i \in DOMAIN puts : \E c \in {puts[i]} :
        /\ c.pc = "r_value_size"
        /\ \E r \in {backend_read(backend, c.rpos, KVSTORE_VALUE_SIZE_BYTES)} :
             puts' = [puts EXCEPT ![i] =
                IF r.res # KVSTORE_OK
                THEN PutReturn(c, KVSTORE_FAILED)
                ELSE IF (c.rpos + KVSTORE_VALUE_SIZE_BYTES + FromBytes(r.data)) % SIZE_MOD
                           > c.rsize
                THEN PutReturn([c EXCEPT !.found_value_size = FromBytes(r.data)],
                               KVSTORE_FAILED)
                ELSE PutFound([c EXCEPT !.found_value_size = FromBytes(r.data)])]
        /\ UNCHANGED backend
        /\ ConcFrame

(* write_slot: argument check, get_size(), bounds check of the slot *)
ConcWriteSize ==
    \E i \in DOMAIN puts : \E c \in {puts[i]} :
        /\ c.pc = "w_size"
        /\ puts' = [puts EXCEPT ![i] =
              IF c.wvalue_size = 0
              THEN WriteSlotReturn(c, KVSTORE_BAD_ARG)
              ELSE IF (c.wpos + calculate_slot_size(c.wkey_size, c.wvalue_size)) % SIZE_MOD
                         > backend_get_size(backend)
              THEN WriteSlotReturn(c, KVSTORE_FAILED)
              ELSE [c EXCEPT !.pc = "w_write",
                             !.pending = WriteSlotWrites(c.wpos, c.wkey, c.wkey_size,
                                                         c.wvalue, c.wvalue_size)]]
        /\ UNCHANGED backend
        /\ ConcFrame

(* write_slot: its next backend write; after the last one it returns *)
ConcWrite ==
    \E i \in DOMAIN puts : \E c \in {puts[i]} :
        /\ c.pc = "w_write"
        /\ \E w \in {backend_write(backend, Head(c.pending).buf,
                                   Head(c.pending).pos, Head(c.pending).size)} :
             /\ backend' = w.b
             /\ puts' = [puts EXCEPT ![i] =
                   IF w.res # KVSTORE_OK
                   THEN WriteSlotReturn([c EXCEPT !.pending = <<>>], KVSTORE_FAILED)
                   ELSE IF Len(c.pending) = 1
                   THEN WriteSlotReturn([c EXCEPT !.pending = <<>>], KVSTORE_OK)
                   ELSE [c EXCEPT !.pending = Tail(c.pending)]]
        /\ ConcFrame

NextConc ==
    \/ ConcPutStart
    \/ ConcReadSize
    \/ ConcReadHeader
    \/ ConcReadKeySize
    \/ ConcReadValueSize
    \/ ConcWriteSize
    \/ ConcWrite

SpecConc == InitConc /\ [][NextConc]_vars

(* ================================================================== *)
(* The data model the properties are stated in: slots as byte ranges   *)
(* of the backend, decoded with plain (unbounded) arithmetic.          *)
(* ================================================================== *)
OVERHEAD == KVSTORE_HEADER_SIZE_BYTES + KVSTORE_KEY_SIZE_BYTES + KVSTORE_VALUE_SIZE_BYTES

Bytes(m, p, n) == SubSeq(m, p + 1, p + n)

KeyLenAt(m, p) ==
    FromBytes(Bytes(m, p + KVSTORE_HEADER_SIZE_BYTES, KVSTORE_KEY_SIZE_BYTES))

ValLenAt(m, p) ==
    FromBytes(Bytes(m, p + KVSTORE_HEADER_SIZE_BYTES + KVSTORE_KEY_SIZE_BYTES + KeyLenAt(m, p),
                    KVSTORE_VALUE_SIZE_BYTES))

SlotSizeAt(m, p) == OVERHEAD + KeyLenAt(m, p) + ValLenAt(m, p)

(* a whole slot lies at offset p of m, inside m *)
SlotAt(m, p) ==
    /\ p + OVERHEAD <= Len(m)
    /\ Bytes(m, p, KVSTORE_HEADER_SIZE_BYTES) = KVSTORE_HEADER_MAGIC
    /\ p + OVERHEAD + KeyLenAt(m, p) <= Len(m)
    /\ p + SlotSizeAt(m, p) <= Len(m)

KeyAt(m, p) ==
    Bytes(m, p + KVSTORE_HEADER_SIZE_BYTES + KVSTORE_KEY_SIZE_BYTES, KeyLenAt(m, p))

ValueAt(m, p) ==
    Bytes(m, p + OVERHEAD + KeyLenAt(m, p), ValLenAt(m, p))

(* the bytes of an occupied slot holding key and value *)
Encoded(key, value) ==
    KVSTORE_HEADER_MAGIC \o ToBytes(Len(key), KVSTORE_KEY_SIZE_BYTES) \o key
        \o ToBytes(Len(value), KVSTORE_VALUE_SIZE_BYTES) \o value

(* the offsets of the slots decoded one after the other from offset p, *)
(* up to the end of m or the first offset where no slot lies           *)
RECURSIVE SlotOffsets(_, _)
SlotOffsets(m, p) ==
    IF p < Len(m) /\ SlotAt(m, p)
    THEN <<p>> \o SlotOffsets(m, p + SlotSizeAt(m, p))
    ELSE <<>>

(* where that decoding stops *)
RECURSIVE DecodeEnd(_, _)
DecodeEnd(m, p) ==
    IF p < Len(m) /\ SlotAt(m, p) THEN DecodeEnd(m, p + SlotSizeAt(m, p)) ELSE p

(* the slots tile m: decoding from 0 consumes exactly Len(m) bytes *)
Tiles(m) == DecodeEnd(m, 0) = Len(m)

FreeSlots(m) ==
    { p \in { SlotOffsets(m, 0)[i] : i \in 1..Len(SlotOffsets(m, 0)) } : KeyLenAt(m, p) = 0 }

(* the free slots of m a pair of slot size need can be split into *)
Fits(m, need) == { p \in FreeSlots(m) : SlotSizeAt(m, p) >= need + OVERHEAD }

Min(S) == CHOOSE x \in S : \A y \in S : x <= y

(* the slot size of the pair the last Put was called with *)
Need(l) == OVERHEAD + l.key_size + l.value_size

IsIncreasing(t) == \A i \in 1..(Len(t) - 1) : t[i] < t[i + 1]

(* the first pair stored under key k *)
Earliest(k) == stored[Min({ i \in 1..Len(stored) : stored[i].key = k })]

(* ================================================================== *)
(* Properties                                                          *)
(* ================================================================== *)

(* C1: packing invariant.  After Prepare and after every Put that      *)
(* returns success, on a backend of at least the minimal slot size,    *)
(* decoding slots one after the other from offset 0 succeeds at every  *)
(* step and consumes exactly size() bytes; this includes the Put that  *)
(* leaves a trailing free slot of value length 0.                      *)
C1_PackingInvariant ==
    [][ (/\ last'.op \in {"prepare", "put"}
         /\ last'.res = KVSTORE_OK
         /\ Len(backend.mem) >= OVERHEAD) => Tiles(backend'.mem) ]_vars

(* C2 as claimed: a Put(K, V) that returns success, then Search(K),    *)
(* then Get with a value buffer of capacity >= |V|: Search succeeds    *)
(* and Get returns success with exactly the bytes and length of V.     *)
C2_RoundTripAnyKey ==
    /\ rt.stage = "search" => last.res = KVSTORE_OK
    /\ (rt.stage = "get" /\ ~last.bad /\ last.cap >= Len(rt.value)) =>
          /\ last.res = KVSTORE_OK
          /\ last.value_size = Len(rt.value)
          /\ SubSeq(last.value, 1, last.value_size) = rt.value

(* C2 as amended: the round trip holds when K was not stored by an     *)
(* earlier Put (Search parks on the earliest slot holding K).          *)
C2_RoundTripFreshKey ==
    /\ (rt.stage = "search" /\ ~rt.dup) => last.res = KVSTORE_OK
    /\ (rt.stage = "get" /\ ~rt.dup /\ ~last.bad /\ last.cap >= Len(rt.value)) =>
          /\ last.res = KVSTORE_OK
          /\ last.value_size = Len(rt.value)
          /\ SubSeq(last.value, 1, last.value_size) = rt.value

C2_Witness ==
    /\ rt.stage = "get" /\ ~rt.dup /\ ~last.bad
    /\ Len(stored) = 2
    /\ Len(rt.value) = MaxValLen /\ last.cap = MaxValLen
    /\ last.res = KVSTORE_OK

(* C3: stored pairs are never disturbed.  Every pair a Put has written *)
(* stays at its offset with the same key length, key, value length and *)
(* value through every later Put, Search, SearchNext, Advance, Get and *)
(* GetWithKey.                                                         *)
C3_StoredUndisturbed ==
    \A i \in 1..Len(stored) :
        Bytes(backend.mem, stored[i].at, Len(Encoded(stored[i].key, stored[i].value)))
            = Encoded(stored[i].key, stored[i].value)

C3_Witness ==
    /\ Len(stored) = 2
    /\ last.op = "put" /\ last.res = KVSTORE_NOT_FOUND
    /\ bound /\ cursor.position > 0

(* C4: a Put with a null key, key length 0, null value, value length 0 *)
(* or key length above KVSTORE_MAX_KEY_SIZE returns BAD_ARG, makes no  *)
(* backend call and leaves the backend unchanged.                      *)
C4_BadArgNoAccess ==
    [][ (last'.op = "put" /\ last'.bad) =>
            /\ last'.res = KVSTORE_BAD_ARG
            /\ last'.io = 0
            /\ backend' = backend ]_vars

C4_Witness ==
    /\ last.op = "put" /\ last.bad
    /\ last.key_size > KVSTORE_MAX_KEY_SIZE
    /\ Len(stored) = 1

(* C5: capacity exhaustion.  A valid Put on a backend that cannot grow, *)
(* has at least the minimal slot size and holds no free slot of at     *)
(* least (new slot size + minimal free slot size) returns NOT_FOUND    *)
(* and leaves every backend byte unchanged; this includes the 12-byte  *)
(* backend after Prepare.                                              *)
C5_ExhaustionIsNotFound ==
    [][ (/\ last'.op = "put" /\ ~last'.bad
         /\ ~backend.growable
         /\ Len(backend.mem) >= OVERHEAD
         /\ Fits(backend.mem, Need(last')) = {}) =>
            /\ last'.res = KVSTORE_NOT_FOUND
            /\ backend' = backend ]_vars

(* C6: first-fit reuse.  When decoding from offset 0 finds a free slot *)
(* of total size >= (new slot size + minimal free slot size), Put      *)
(* writes the occupied slot at the first such slot's offset and a free *)
(* slot of size (old free size - new slot size) right after it,        *)
(* returns success, and size() is unchanged.                           *)
C6_FirstFitSplit ==
    [][ (/\ last'.op = "put" /\ ~last'.bad
         /\ Fits(backend.mem, Need(last')) # {}) =>
            LET p == Min(Fits(backend.mem, Need(last')))
                q == p + Need(last')
                m == backend'.mem
            IN /\ last'.res = KVSTORE_OK
               /\ last'.at = p
               /\ SlotAt(m, p)
               /\ KeyLenAt(m, p) = last'.key_size
               /\ ValLenAt(m, p) = last'.value_size
               /\ SlotAt(m, q)
               /\ KeyLenAt(m, q) = 0
               /\ SlotSizeAt(m, q) = SlotSizeAt(backend.mem, p) - Need(last')
               /\ Len(m) = Len(backend.mem) ]_vars

(* C7: append with growth.  When the scan reaches the end of a         *)
(* growable backend without a usable free slot, Put writes the new     *)
(* occupied slot at the end-of-backend offset, returns success, and    *)
(* size() grows by exactly the new slot's size.                        *)
C7_AppendGrows ==
    [][ (/\ last'.op = "put" /\ ~last'.bad
         /\ backend.growable
         /\ Tiles(backend.mem)
         /\ Fits(backend.mem, Need(last')) = {}) =>
            LET e == Len(backend.mem)
                m == backend'.mem
            IN /\ last'.res = KVSTORE_OK
               /\ Len(m) = e + Need(last')
               /\ SlotAt(m, e)
               /\ KeyLenAt(m, e) = last'.key_size
               /\ ValLenAt(m, e) = last'.value_size ]_vars

(* C8: exact-fit waste, on a backend that can grow.  A free slot of    *)
(* total size at least the new pair's slot size but below (slot size + *)
(* minimal free slot size) keeps its bytes, and the pair is placed in  *)
(* a later slot or appended at the end.                                *)
C8_ExactFitWaste ==
    [][ (last'.op = "put" /\ ~last'.bad /\ backend.growable) =>
            \A p \in FreeSlots(backend.mem) :
                LET f == SlotSizeAt(backend.mem, p)
                IN (Need(last') <= f /\ f < Need(last') + OVERHEAD) =>
                      /\ Bytes(backend'.mem, p, f) = Bytes(backend.mem, p, f)
                      /\ last'.res = KVSTORE_OK
                      /\ last'.at > p ]_vars

(* C9: search termination.  Search(K) for a key K that no Put has      *)
(* stored ends after finitely many slot decodes (at most one per       *)
(* minimal slot of the backend, plus the failing one) with a result    *)
(* other than success, and the cursor position strictly increases from *)
(* one decode to the next.                                             *)
C9_SearchTerminates ==
    (last.op = "search" /\ ~last.bad /\ cursor.key \notin StoredKeys) =>
        /\ last.ended
        /\ last.res # KVSTORE_OK
        /\ IsIncreasing(last.trace)
        /\ Len(last.trace) <= (Len(backend.mem) \div OVERHEAD) + 1

C9_Witness ==
    /\ last.op = "search" /\ ~last.bad /\ cursor.key \notin StoredKeys
    /\ Len(stored) = 2
    /\ Len(last.trace) >= 3
    /\ last.res = KVSTORE_FAILED

(* C10: duplicate keys.  Every successful Put adds a slot of its own   *)
(* (no deduplication); Search(K) for a stored key K succeeds with the  *)
(* cursor on the slot written by the earliest Put of K, and a Get that *)
(* follows returns that earliest value.                                *)
C10_EarliestDuplicate ==
    /\ \A i, j \in 1..Len(stored) : i # j => stored[i].at # stored[j].at
    /\ (last.op = "search" /\ ~last.bad /\ cursor.key \in StoredKeys) =>
          /\ last.res = KVSTORE_OK
          /\ cursor.position = Earliest(cursor.key).at
    /\ (rt.stage = "get" /\ ~last.bad /\ last.cap >= Len(Earliest(rt.key).value)) =>
          /\ last.res = KVSTORE_OK
          /\ SubSeq(last.value, 1, last.value_size) = Earliest(rt.key).value

C10_Witness ==
    /\ rt.stage = "get" /\ rt.dup /\ ~last.bad
    /\ Len(stored) = 2
    /\ stored[1].key = stored[2].key
    /\ Len(stored[1].value) = Len(stored[2].value)
    /\ stored[1].value # stored[2].value
    /\ last.res = KVSTORE_OK
    /\ SubSeq(last.value, 1, last.value_size) = stored[1].value

(* the set of the elements of a sequence *)
Range(t) == { t[i] : i \in 1..Len(t) }

(* the slot at offset p of m holds key k *)
HoldsKey(m, p, k) == SlotAt(m, p) /\ KeyLenAt(m, p) = Len(k) /\ KeyAt(m, p) = k

(* C11: SearchNext finds the next match.  On a cursor parked on a match *)
(* (Search or SearchNext has just returned success) a SearchNext that   *)
(* returns success has moved the cursor to a later slot, and when a     *)
(* later slot holds the captured key SearchNext returns success on it.  *)
C11_SearchNextMovesOn ==
    [][ (/\ last.op \in {"search", "search_next"} /\ last.res = KVSTORE_OK
         /\ last'.op = "search_next") =>
            /\ last'.res = KVSTORE_OK => cursor'.position > cursor.position
            /\ (\E i \in 1..Len(stored) :
                    stored[i].key = cursor.key /\ stored[i].at > cursor.position) =>
                  /\ last'.res = KVSTORE_OK
                  /\ cursor'.position > cursor.position
                  /\ HoldsKey(backend.mem, cursor'.position, cursor.key) ]_vars

C13_AdvanceLandsOnPair ==
    (last.op = "advance" /\ last.res = KVSTORE_OK /\ Tiles(backend.mem)) =>
        /\ SlotAt(backend.mem, cursor.position)
        /\ KeyLenAt(backend.mem, cursor.position) > 0

(* C14: no partial success.  Whenever Prepare or Put returns success,  *)
(* every slot encode it attempted has succeeded.                       *)
C14_NoPartialSuccess ==
    (last.op \in {"prepare", "put"} /\ last.res = KVSTORE_OK) =>
        \A i \in 1..Len(last.enc) : last.enc[i] = KVSTORE_OK

(* C15: Put returns KVSTORE_OK, KVSTORE_BAD_ARG or KVSTORE_FAILED and  *)
(* no other result.                                                    *)
C15_PutResults ==
    last.op = "put" => last.res \in {KVSTORE_OK, KVSTORE_BAD_ARG, KVSTORE_FAILED}

(* C16: search results are real matches.  Whenever Search or SearchNext *)
(* returns success, the cursor is on an occupied slot whose key length  *)
(* and key bytes equal the captured key, and no slot between the scan's *)
(* starting position and the result holds that key.                     *)
C16_SearchMatchesAreReal ==
    (last.op \in {"search", "search_next"} /\ last.res = KVSTORE_OK) =>
        /\ cursor.key_size > 0
        /\ Len(cursor.key) = cursor.key_size
        /\ HoldsKey(backend.mem, cursor.position, cursor.key)
        /\ \A q \in Range(SlotOffsets(backend.mem, last.trace[1])) :
              q < cursor.position => ~HoldsKey(backend.mem, q, cursor.key)

(* a match found behind an occupied slot that holds another key of the same length *)
C16_Witness ==
    /\ last.op = "search" /\ last.res = KVSTORE_OK
    /\ Len(stored) = 2
    /\ cursor.position = stored[2].at
    /\ Len(stored[1].key) = Len(stored[2].key)
    /\ stored[1].key # stored[2].key

(* C17: decode is all-or-nothing.  A GetWithKey that fails (on a store *)
(* that decodes from offset 0 to its end) leaves the caller's key      *)
(* buffer, key length, value buffer and value length as they were on   *)
(* entry: each buffer untouched, each length still the buffer's        *)
(* capacity.                                                           *)
C17_FailedDecodeWritesNothing ==
    (last.op = "get_kv" /\ last.res # KVSTORE_OK /\ Tiles(backend.mem)) =>
        /\ last.key_size = Len(last.key)
        /\ last.key = Buffer(Len(last.key))
        /\ last.value_size = Len(last.value)
        /\ last.value = Buffer(Len(last.value))

(* C19: writes never leave the backend's range.  A Prepare or a Put   *)
(* issues no backend write past size(): the backend does not grow, and *)
(* a slot encode that fails has written no byte.  This holds for every *)
(* backend size, those below the minimal slot size included.           *)
C19_WritesStayInRange ==
    [][ last'.op \in {"prepare", "put"} =>
            /\ Len(backend'.mem) = Len(backend.mem)
            /\ KVSTORE_FAILED \in Range(last'.enc) => backend'.mem = backend.mem ]_vars

(* C20: store shape.  After Prepare and any Puts the slots decoded     *)
(* from offset 0 are occupied slots followed by at most one free slot, *)
(* the last one; the occupied slots are the pairs put, in insertion    *)
(* order; and once a Put was refused with NOT_FOUND, no later Put of a *)
(* pair with the same or a larger slot size succeeds.                  *)
C20_StoreShape ==
    prepared =>
        \E offs \in {SlotOffsets(backend.mem, 0)} :
            /\ \A i \in 1..(Len(offs) - 1) : KeyLenAt(backend.mem, offs[i]) > 0
            /\ \A i \in 1..Len(stored) :
                  /\ i <= Len(offs)
                  /\ offs[i] = stored[i].at
                  /\ KeyAt(backend.mem, offs[i]) = stored[i].key
            /\ \A i \in 1..Len(offs) :
                  KeyLenAt(backend.mem, offs[i]) > 0 => i <= Len(stored)
            /\ (last.op = "put" /\ last.res = KVSTORE_OK /\ refused > 0) =>
                  Need(last) < refused

(* a third Put refused after a smaller pair was refused, behind two pairs and a free slot *)
C20_Witness ==
    /\ Len(stored) = 2
    /\ Len(SlotOffsets(backend.mem, 0)) = 3
    /\ last.op = "put" /\ last.res = KVSTORE_NOT_FOUND
    /\ refused > 0 /\ Need(last) > refused

(* Search(k) on the store as it is returns success *)
ConcFound(k) == kvstore_search(backend, cursor, k, Len(k)).res = KVSTORE_OK

(* both calls have returned success after choosing the same free slot *)
ConcSameSlot ==
    /\ \A i \in DOMAIN puts : puts[i].pc = "done" /\ puts[i].res = KVSTORE_OK
    /\ puts[1].at = puts[2].at

(* C18: unsynchronised concurrent use is unsafe.  When two Put calls   *)
(* whose backend calls interleave both choose the same free slot and   *)
(* both return success, the store no longer decodes from offset 0 to   *)
(* its end or one of the two keys cannot be found by Search; and such  *)
(* an interleaving exists (C18_Witness).                               *)
C18_SameSlotLosesPair ==
    ConcSameSlot =>
        \/ ~Tiles(backend.mem)
        \/ ~ConcFound(puts[1].key)
        \/ ~ConcFound(puts[2].key)

(* both calls returned success and the store decodes, yet the first key is gone *)
C18_Witness ==
    /\ ConcSameSlot
    /\ Tiles(backend.mem)
    /\ ~ConcFound(puts[1].key)
    /\ ConcFound(puts[2].key)

====
